---- MODULE Spec2Model ----
(***************************************************************************)
(* A model of the LOD archive reader and the indexed-image decoders of     *)
(* openmm: src/src/lod.rs (archive directory), src/lod/src/image.rs        *)
(* (bitmap and sprite decoding, materialisation, atlas composition) and    *)
(* src/src/sprite.rs (the standalone sprite row decoder).                  *)
(*                                                                         *)
(* Three specifications share the module:                                  *)
(*   Spec      - the image decoders and Image::to_image_buffer             *)
(*   SpecLod   - Lod::open, Lod::files and Lod::get_raw                    *)
(*   SpecAtlas - join_images_in_grid                                       *)
(* Each leaves the variables of the other two at their idle values.        *)
(*                                                                         *)
(* Buffers (Vec<u8>, slices) are functions over 0..n-1, as the code        *)
(* indexes them.  A usize that wrapped around in a build without overflow  *)
(* checks is represented by the small integer it is congruent to modulo    *)
(* 2^64: a negative representative stands for a value near 2^64, which no  *)
(* slice bound accepts.                                                    *)
(***************************************************************************)
EXTENDS Integers, Sequences, FiniteSets, TLC

\* ---------------------------------------------------------------- bounds
MaxWidth == 2
MaxCount == 2
MaxTiles == 5
MaxGrid == 3
MaxTileW == 2
MaxTileH == 2
MaxHeight == 2
MaxData == 2
MaxCompressed == 2
MaxUncompressed == 4

\* ------------------------------------------------------ program constants
PALETTE_SIZE == 768
BITMAP_HEADER_SIZE == 48

VARIABLES
    \* --- Spec: image decoders
    kind,             \* what the caller runs: "sprite" (the sprite constructor of
                      \* image.rs), "rows" (both row decoders on one table) or "bitmap"
    overflow_checks,  \* build profile: TRUE panics on integer overflow, FALSE wraps
    width, height,    \* process_sprite_data / process_image_data arguments
    data,             \* the run-data buffer (decompressed payload)
    table_len,        \* number of whole 8-byte records the table slice holds
    table,            \* the records of the table read so far
    a_pc, a_i, current, img,        \* process_sprite_data (image.rs)
    b_pc, b_i, img_index, img2,     \* process_image_data (sprite.rs)
    bm_pc,            \* Image::try_from(&[u8]) (bitmap)
    image,            \* the decoded Image, <<>> while there is none
    m_pc, raster,     \* Image::to_image_buffer and the ImageBuffer it fills
    \* --- SpecLod: the archive
    lod_pc,           \* how far Lod::open got
    records_avail,    \* whole 32-byte records the file holds from offset 256 on
    magic, tag,       \* the two zero-terminated strings read from the file
    dir,              \* the directory records read so far, as stored in the file
    initial_offset, num_files, files,   \* locals of Lod::open
    lod,              \* the Lod that open returned, <<>> while there is none
    query, result, io, \* Lod::get_raw: its argument, its result, its file operations
    \* --- SpecAtlas: join_images_in_grid
    at_pc,
    num_images, grid_width, image_width, image_height,   \* the arguments
    images,           \* the tiles images[0..i) the loop has read so far
    combined_width, combined_height, combined_image,
    origins           \* (x_offset, y_offset) of each tile placed so far

imageVars == <<kind, overflow_checks, width, height, data, table_len, table,
               a_pc, a_i, current, img, b_pc, b_i, img_index, img2,
               bm_pc, image, m_pc, raster>>

lodVars == <<lod_pc, records_avail, magic, tag, dir, initial_offset, num_files,
             files, lod, query, result, io>>

atlasVars == <<at_pc, num_images, grid_width, image_width, image_height, images,
               combined_width, combined_height, combined_image, origins>>

vars == <<imageVars, lodVars, atlasVars>>

\* ----------------------------------------------------------------- buffers
ByteSample == {1, 255}

BufLen(buf) == Cardinality(DOMAIN buf)

ZeroVec(n) == [i \in 0..(n - 1) |-> 0]

\* buf[at .. at+n] exists: the bounds check of a range index
SliceOk(at, n, len) == at >= 0 /\ n >= 0 /\ at + n <= len

\* dst[at..at+n].copy_from_slice(&src[from..from+n])
CopyFromSlice(dst, at, src, from, n) ==
    [i \in DOMAIN dst |-> IF at <= i /\ i < at + n THEN src[from + (i - at)] ELSE dst[i]]

\* the 16 bits of an i16 read as a u16 (sprite.rs reads the same table as u16)
U16(x) == IF x < 0 THEN x + 65536 ELSE x

\* the table records drawn: every start and end in 0..MaxWidth (so past the
\* width of a narrower image too), and the three ways of being negative
Coord == 0..MaxWidth
Rows ==
    [start : Coord, end : Coord, offset : 0..MaxData] \cup
    {[start |-> -1, end |-> -1, offset |-> 0],
     [start |-> -1, end |-> 0, offset |-> 0],
     [start |-> 0, end |-> -1, offset |-> 0]}

\* the run data of a sprite: one buffer per length, its bytes pairwise distinct
\* (1, 255, 2, 254, ...) so that a byte copied from the wrong place shows; the
\* row decoders copy the bytes and never branch on them
RunData(n) == [i \in 0..(n - 1) |-> IF i % 2 = 0 THEN 1 + i \div 2 ELSE 255 - i \div 2]

ZeroPalette == [k \in 0..(PALETTE_SIZE - 1) |-> 0]
RampPalette == [k \in 0..(PALETTE_SIZE - 1) |-> (k * 7 + 3) % 256]
PaletteSample == {ZeroPalette, RampPalette}

\* ------------------------------------------------- process_sprite_data
ChunkSize_off(start, end) == end - start
ChunkSize(start, end) == end - start + 1

EmptyRowAdvance(w) == w - 1

\* the table cursor yields the next record
ReadRow ==
    /\ kind \in {"sprite", "rows"}
    /\ Len(table) < height /\ Len(table) < table_len
    /\ a_pc = "run" \/ b_pc = "run"
    /\ a_pc = "run" => a_i = Len(table)
    /\ b_pc = "run" => b_i = Len(table)
    /\ \E rw \in Rows : table' = Append(table, rw)
    /\ UNCHANGED <<kind, overflow_checks, width, height, data, table_len,
                   a_pc, a_i, current, img, b_pc, b_i, img_index, img2,
                   bm_pc, image, m_pc, raster>>
    /\ UNCHANGED <<lodVars, atlasVars>>

\* one iteration of the loop of process_sprite_data
process_sprite_data ==
    /\ kind \in {"sprite", "rows"} /\ a_pc = "run" /\ a_i < Len(table)
    /\ LET rw == table[a_i + 1]
           start == rw.start
           end == rw.end
           offset == rw.offset
           cur1 == current + start
           chunk_size == ChunkSize(start, end)
       IN  IF start < 0 \/ end < 0
           THEN IF overflow_checks /\ width = 0
                THEN a_pc' = "panic" /\ UNCHANGED <<a_i, current, img>>
                ELSE /\ current' = current + EmptyRowAdvance(width)
                     /\ a_i' = a_i + 1
                     /\ UNCHANGED <<a_pc, img>>
           ELSE IF \/ ~SliceOk(cur1, chunk_size, BufLen(img))
                   \/ ~SliceOk(offset, chunk_size, BufLen(data))
                   \/ overflow_checks /\ start > width
                THEN a_pc' = "panic" /\ UNCHANGED <<a_i, current, img>>
                ELSE /\ img' = CopyFromSlice(img, cur1, data, offset, chunk_size)
                     /\ current' = cur1 + (width - start)
                     /\ a_i' = a_i + 1
                     /\ UNCHANGED a_pc
    /\ UNCHANGED <<kind, overflow_checks, width, height, data, table_len, table,
                   b_pc, b_i, img_index, img2, bm_pc, image, m_pc, raster>>
    /\ UNCHANGED <<lodVars, atlasVars>>

\* the loop ends (Ok(img)), or the table cursor is exhausted (Err)
process_sprite_data_return ==
    /\ kind \in {"sprite", "rows"} /\ a_pc = "run" /\ a_i = Len(table)
    /\ \/ a_i = height /\ a_pc' = "ok"
       \/ a_i < height /\ a_i >= table_len /\ a_pc' = "err"
    /\ UNCHANGED <<kind, overflow_checks, width, height, data, table_len, table,
                   a_i, current, img, b_pc, b_i, img_index, img2,
                   bm_pc, image, m_pc, raster>>
    /\ UNCHANGED <<lodVars, atlasVars>>

\* ------------------------------------------------- process_image_data
ImageRowAdvance_off(data_size, w, end) == data_size + w - end
ImageRowAdvance(data_size, w, end) == data_size + w - 1 - end

process_image_data ==
    /\ kind = "rows" /\ b_pc = "run" /\ b_i < Len(table)
    /\ LET rw == table[b_i + 1]
           start == U16(rw.start)
           end == U16(rw.end)
           offset == rw.offset
           idx1 == img_index + start
           data_size == end - start + 1
       IN  IF \/ overflow_checks /\ end < start
              \/ ~SliceOk(idx1, data_size, BufLen(img2))
              \/ ~SliceOk(offset, data_size, BufLen(data))
              \/ overflow_checks /\ (data_size + width < 1 \/ data_size + width - 1 < end)
           THEN b_pc' = "panic" /\ UNCHANGED <<b_i, img_index, img2>>
           ELSE /\ img2' = CopyFromSlice(img2, idx1, data, offset, data_size)
                /\ img_index' = idx1 + ImageRowAdvance(data_size, width, end)
                /\ b_i' = b_i + 1
                /\ UNCHANGED b_pc
    /\ UNCHANGED <<kind, overflow_checks, width, height, data, table_len, table,
                   a_pc, a_i, current, img, bm_pc, image, m_pc, raster>>
    /\ UNCHANGED <<lodVars, atlasVars>>

process_image_data_return ==
    /\ kind = "rows" /\ b_pc = "run" /\ b_i = Len(table)
    /\ \/ b_i = height /\ b_pc' = "ok"
       \/ b_i < height /\ b_i >= table_len /\ b_pc' = "err"
    /\ UNCHANGED <<kind, overflow_checks, width, height, data, table_len, table,
                   a_pc, a_i, current, img, b_i, img_index, img2,
                   bm_pc, image, m_pc, raster>>
    /\ UNCHANGED <<lodVars, atlasVars>>

\* ------------------------------------- Image::try_from((&[u8], &Palettes))
\* the tail of the sprite constructor: the rows decoded, the Image is built
\* with the palette that Palettes::get resolved
SpriteTryFrom ==
    /\ kind = "sprite" /\ a_pc = "ok" /\ image = <<>>
    /\ \E pal \in PaletteSample :
         image' = <<[height |-> height, width |-> width, data |-> img,
                     palette |-> pal, transparency |-> TRUE]>>
    /\ UNCHANGED <<kind, overflow_checks, width, height, data, table_len, table,
                   a_pc, a_i, current, img, b_pc, b_i, img_index, img2,
                   bm_pc, m_pc, raster>>
    /\ UNCHANGED <<lodVars, atlasVars>>

\* ------------------------------------------------ Image::try_from(&[u8])
\* zlib::decompress: fails when the slice is shorter than the declared
\* compressed size or when the stream is malformed, and otherwise returns
\* exactly uncompressed_size bytes
DecompressResults(avail, compressed_size, uncompressed_size) ==
    {[ok |-> FALSE, data |-> ZeroVec(0)]} \cup
    IF avail < compressed_size
    THEN {}
    ELSE {[ok |-> TRUE, data |-> d] : d \in [0..(uncompressed_size - 1) -> ByteSample]}

\* lengths of the record handed to the decoder: too short for the header
\* fields, header and palette only, and with 1..MaxCompressed payload bytes
RecordLens ==
    {BITMAP_HEADER_SIZE - 5, BITMAP_HEADER_SIZE + PALETTE_SIZE} \cup
    {BITMAP_HEADER_SIZE + PALETTE_SIZE + k : k \in 1..MaxCompressed}

\* the last header field read ends at byte 44
HeaderReadable(len) == len >= 44

BitmapTryFrom ==
    /\ kind = "bitmap" /\ bm_pc = "start"
    /\ \E len \in RecordLens, pixel_size \in 0..1, compressed_size \in 0..MaxCompressed,
          w \in 0..MaxWidth, h \in 0..MaxHeight, uncompressed_size \in 0..MaxUncompressed,
          pal \in PaletteSample :
         IF \/ ~HeaderReadable(len)
            \/ pixel_size = 0
            \/ len <= BITMAP_HEADER_SIZE + PALETTE_SIZE
         THEN bm_pc' = "err" /\ UNCHANGED image
         ELSE \E res \in DecompressResults(len - PALETTE_SIZE - BITMAP_HEADER_SIZE,
                                           compressed_size, uncompressed_size) :
                IF ~res.ok
                THEN bm_pc' = "err" /\ UNCHANGED image
                ELSE /\ bm_pc' = "ok"
                     /\ image' = <<[height |-> h, width |-> w, data |-> res.data,
                                    palette |-> pal, transparency |-> FALSE]>>
    /\ UNCHANGED <<kind, overflow_checks, width, height, data, table_len, table,
                   a_pc, a_i, current, img, b_pc, b_i, img_index, img2,
                   m_pc, raster>>
    /\ UNCHANGED <<lodVars, atlasVars>>

\* ------------------------------------------------ Image::to_image_buffer
\* the closure handed to raw_to_image_buffer; d is self.data
PixelConverter_noflag(transparency, d, index, pixel) ==
    IF index = d[0] THEN <<0, 0, 0, 0>> ELSE <<pixel[1], pixel[2], pixel[3], 255>>
PixelConverter(transparency, d, index, pixel) ==
    IF transparency /\ index = d[0]
    THEN <<0, 0, 0, 0>>
    ELSE <<pixel[1], pixel[2], pixel[3], 255>>

\* palette[index..index + 3]
PaletteSliceOk(index) == index + 3 <= PALETTE_SIZE
PaletteSlice(palette, index) == <<palette[index], palette[index + 1], palette[index + 2]>>

\* ImageBuffer::new(width, height): every pixel zero
NewImageBuffer(w, h) == [xy \in (0..(w - 1)) \X (0..(h - 1)) |-> <<0, 0, 0, 0>>]

\* the loop of raw_to_image_buffer over data[..width*height], from pixel i on
RECURSIVE RawToImageBuffer(_, _, _, _)
RawToImageBuffer(im, buf, i, n) ==
    IF i >= n
    THEN buf
    ELSE LET pi == im.data[i]
             x == i % im.width
             y == i \div im.width
             index == 3 * pi
             pixel == PixelConverter(im.transparency, im.data, pi,
                                     PaletteSlice(im.palette, index))
         IN  RawToImageBuffer(im, [buf EXCEPT ![<<x, y>>] = pixel], i + 1, n)

to_image_buffer ==
    /\ image # <<>> /\ m_pc = "idle"
    /\ LET im == image[1]
           n == im.width * im.height
       IN  IF \/ ~SliceOk(0, n, BufLen(im.data))
              \/ \E i \in 0..(n - 1) : ~PaletteSliceOk(3 * im.data[i])
           THEN m_pc' = "panic" /\ UNCHANGED raster
           ELSE /\ m_pc' = "ok"
                /\ raster' = RawToImageBuffer(im, NewImageBuffer(im.width, im.height), 0, n)
    /\ UNCHANGED <<kind, overflow_checks, width, height, data, table_len, table,
                   a_pc, a_i, current, img, b_pc, b_i, img_index, img2,
                   bm_pc, image>>
    /\ UNCHANGED <<lodVars, atlasVars>>

\* ------------------------------------------------------------- Spec
LodIdle ==
    /\ lod_pc = "Idle" /\ records_avail = 0 /\ magic = "" /\ tag = ""
    /\ dir = <<>> /\ initial_offset = 0 /\ num_files = 0 /\ files = <<>>
    /\ lod = <<>> /\ query = <<>> /\ result = "none" /\ io = <<>>

AtlasIdle ==
    /\ at_pc = "idle" /\ num_images = 0 /\ grid_width = 0
    /\ image_width = 0 /\ image_height = 0 /\ images = <<>>
    /\ combined_width = 0 /\ combined_height = 0 /\ combined_image = <<>>
    /\ origins = <<>>

InitSprite ==
    /\ kind \in {"sprite", "rows"}
    /\ overflow_checks \in BOOLEAN
    /\ width \in 0..MaxWidth
    /\ height \in 0..MaxHeight
    /\ data \in {RunData(n) : n \in 0..MaxData}
    /\ table_len \in {height, IF height > 0 THEN height - 1 ELSE 0}
    /\ table = <<>>
    /\ a_pc = "run" /\ a_i = 0 /\ current = 0 /\ img = ZeroVec(width * height)
    /\ b_pc = (IF kind = "rows" THEN "run" ELSE "idle")
    /\ b_i = 0 /\ img_index = 0 /\ img2 = ZeroVec(width * height)
    /\ bm_pc = "idle" /\ image = <<>> /\ m_pc = "idle" /\ raster = <<>>

InitBitmap ==
    /\ kind = "bitmap"
    /\ overflow_checks = FALSE
    /\ width = 0 /\ height = 0 /\ data = ZeroVec(0) /\ table_len = 0 /\ table = <<>>
    /\ a_pc = "idle" /\ a_i = 0 /\ current = 0 /\ img = ZeroVec(0)
    /\ b_pc = "idle" /\ b_i = 0 /\ img_index = 0 /\ img2 = ZeroVec(0)
    /\ bm_pc = "start" /\ image = <<>> /\ m_pc = "idle" /\ raster = <<>>

Init == (InitSprite \/ InitBitmap) /\ LodIdle /\ AtlasIdle

Next ==
    \/ ReadRow
    \/ process_sprite_data
    \/ process_sprite_data_return
    \/ process_image_data
    \/ process_image_data_return
    \/ SpriteTryFrom
    \/ BitmapTryFrom
    \/ to_image_buffer

Spec == Init /\ [][Next]_vars

\* =================================================================
\* SpecLod: src/src/lod.rs
\* =================================================================
ImageIdle ==
    /\ kind = "none" /\ overflow_checks = FALSE
    /\ width = 0 /\ height = 0 /\ data = ZeroVec(0) /\ table_len = 0 /\ table = <<>>
    /\ a_pc = "idle" /\ a_i = 0 /\ current = 0 /\ img = ZeroVec(0)
    /\ b_pc = "idle" /\ b_i = 0 /\ img_index = 0 /\ img2 = ZeroVec(0)
    /\ bm_pc = "idle" /\ image = <<>> /\ m_pc = "idle" /\ raster = <<>>

\* what read_until_zero_byte returns for the first and the second string
MagicSample == {"LOD", "lod", "LOD2", ""}
TagSample == {"GameMMVI", "MMVI", "GameMMVII", "MMVII", "GameMMVIII", "MMVIII",
              "GameMM9", ""}

\* the name field of a directory record, without its zero padding: "a", "A",
\* "a" followed by a zero byte and "b", and a byte that is no UTF-8
NameFieldSample == {<<97>>, <<65>>, <<97, 0, 98>>, <<255>>}
OffsetSample == {16, 64}
SizeSample == {4, -1}
CountSample == -1..MaxCount

\* the names a caller asks for: "a", "A", "b"
QuerySample == {<<97>>, <<65>>, <<98>>}

\* impl TryFrom<&[u8]> for Version
VersionTryFrom(t) ==
    CASE t \in {"GameMMVI", "MMVI"} -> "MM6"
      [] t \in {"GameMMVII", "MMVII"} -> "MM7"
      [] t \in {"GameMMVIII", "MMVIII"} -> "MM8"
      [] OTHER -> "Invalid"

\* impl TryFrom<&[u8; FILE_HEADER_SIZE]> for FileHeader: the name is the
\* bytes before the first zero byte, and must be UTF-8
FirstZero(field) ==
    IF \E i \in 1..Len(field) : field[i] = 0
    THEN CHOOSE i \in 1..Len(field) :
           field[i] = 0 /\ \A j \in 1..(i - 1) : field[j] # 0
    ELSE Len(field) + 1

NameBytes(field) == SubSeq(field, 1, FirstZero(field) - 1)

Utf8Ok(bytes) == \A i \in 1..Len(bytes) : bytes[i] < 128

FileHeaderTryFrom(rec) ==
    [name |-> NameBytes(rec.name), offset |-> rec.offset,
     size |-> rec.size, count |-> rec.count]

\* Vec::with_capacity(n) of a count that was negative as an i32: n as usize
\* is at least 2^64 - 2^31 and the byte size overflows ("capacity overflow")
CapacityOverflow(n) == n < 0

\* file_header.offset += initial_offset (the sampled offsets keep the sum
\* within an i32)
EntryOffset_raw(raw, base) == raw
EntryOffset(raw, base) == raw + base

\* File::open, the magic string and its check
Lod_open_magic ==
    /\ lod_pc = "Unopened"
    /\ \/ lod_pc' = "IoError" /\ UNCHANGED magic
       \/ \E m \in MagicSample :
            /\ magic' = m
            /\ lod_pc' = IF m = "LOD" THEN "MagicValidated" ELSE "InvalidMagic"
    /\ UNCHANGED <<records_avail, tag, dir, initial_offset, num_files, files, lod,
                   query, result, io>>
    /\ UNCHANGED <<imageVars, atlasVars>>

\* the version tag and Version::try_from
Lod_open_version ==
    /\ lod_pc = "MagicValidated"
    /\ \E t \in TagSample :
         /\ tag' = t
         /\ lod_pc' = IF VersionTryFrom(t) = "Invalid" THEN "InvalidVersion"
                      ELSE "HeaderValidated"
    /\ UNCHANGED <<records_avail, magic, dir, initial_offset, num_files, files, lod,
                   query, result, io>>
    /\ UNCHANGED <<imageVars, atlasVars>>

\* seek to the directory, read record 0, allocate the vector and push it
Lod_open_initial_header ==
    /\ lod_pc = "HeaderValidated"
    /\ IF records_avail < 1
       THEN lod_pc' = "TruncatedIndex" /\ UNCHANGED <<dir, initial_offset, num_files, files>>
       ELSE \E nm \in NameFieldSample, off \in OffsetSample, sz \in SizeSample,
               cnt \in CountSample :
              LET rec == [name |-> nm, offset |-> off, size |-> sz, count |-> cnt]
              IN  /\ dir' = <<rec>>
                  /\ IF ~Utf8Ok(NameBytes(nm))
                     THEN lod_pc' = "BadName" /\ UNCHANGED <<initial_offset, num_files, files>>
                     ELSE /\ initial_offset' = off
                          /\ num_files' = cnt
                          /\ IF CapacityOverflow(cnt)
                             THEN lod_pc' = "Panic" /\ UNCHANGED files
                             ELSE /\ files' = <<FileHeaderTryFrom(rec)>>
                                  /\ lod_pc' = "IndexLoading"
    /\ UNCHANGED <<records_avail, magic, tag, lod, query, result, io>>
    /\ UNCHANGED <<imageVars, atlasVars>>

\* one iteration of the loop over 0..num_files
Lod_open_file_header ==
    /\ lod_pc = "IndexLoading" /\ Len(files) - 1 < num_files
    /\ IF records_avail < Len(dir) + 1
       THEN lod_pc' = "TruncatedIndex" /\ UNCHANGED <<dir, files>>
       ELSE \E nm \in NameFieldSample, off \in OffsetSample, sz \in SizeSample :
              LET rec == [name |-> nm, offset |-> off, size |-> sz, count |-> 0]
              IN  /\ dir' = Append(dir, rec)
                  /\ IF ~Utf8Ok(NameBytes(nm))
                     THEN lod_pc' = "BadName" /\ UNCHANGED files
                     ELSE /\ files' = Append(files,
                                [FileHeaderTryFrom(rec) EXCEPT
                                    !.offset = EntryOffset(rec.offset, initial_offset)])
                          /\ UNCHANGED lod_pc
    /\ UNCHANGED <<records_avail, magic, tag, initial_offset, num_files, lod,
                   query, result, io>>
    /\ UNCHANGED <<imageVars, atlasVars>>

\* Ok(Lod { lod_path, version, files })
Lod_open_return ==
    /\ lod_pc = "IndexLoading" /\ Len(files) - 1 = num_files
    /\ lod' = <<[version |-> VersionTryFrom(tag), files |-> files]>>
    /\ lod_pc' = "Ready"
    /\ UNCHANGED <<records_avail, magic, tag, dir, initial_offset, num_files, files,
                   query, result, io>>
    /\ UNCHANGED <<imageVars, atlasVars>>

\* Lod::files
Lod_files(l) == [i \in 1..Len(l.files) |-> l.files[i].name]

\* self.files.iter().find(|f| f.name == name): the index of the first entry
\* of that name, 0 when there is none
LowerByte(b) == IF b \in 65..90 THEN b + 32 ELSE b
Lower(name) == [i \in 1..Len(name) |-> LowerByte(name[i])]
Find_nocase(fs, name) ==
    IF \E i \in 1..Len(fs) : Lower(fs[i].name) = Lower(name)
    THEN CHOOSE i \in 1..Len(fs) :
           Lower(fs[i].name) = Lower(name) /\ \A j \in 1..(i - 1) : Lower(fs[j].name) # Lower(name)
    ELSE 0
Find(fs, name) ==
    IF \E i \in 1..Len(fs) : fs[i].name = name
    THEN CHOOSE i \in 1..Len(fs) :
           fs[i].name = name /\ \A j \in 1..(i - 1) : fs[j].name # name
    ELSE 0

\* Lod::get_raw; io lists the operations this call made on the backing file
Lod_get_raw ==
    /\ lod_pc = "Ready"
    /\ \E name \in QuerySample :
         LET lf == Find(lod[1].files, name)
         IN  /\ query' = name
             /\ IF lf = 0
                THEN result' = "NotFound" /\ io' = <<>>
                ELSE \/ result' = "IoError" /\ io' = <<"open">>
                     \/ /\ CapacityOverflow(lod[1].files[lf].size)
                        /\ result' = "Panic" /\ io' = <<"open", "seek">>
                     \/ /\ ~CapacityOverflow(lod[1].files[lf].size)
                        /\ result' \in {"Ok", "IoError"}
                        /\ io' = <<"open", "seek", "read">>
    /\ UNCHANGED <<lod_pc, records_avail, magic, tag, dir, initial_offset, num_files,
                   files, lod>>
    /\ UNCHANGED <<imageVars, atlasVars>>

InitLod ==
    /\ ImageIdle /\ AtlasIdle
    /\ lod_pc = "Unopened" /\ records_avail \in 0..(MaxCount + 1)
    /\ magic = "" /\ tag = ""
    /\ dir = <<>> /\ initial_offset = 0 /\ num_files = 0 /\ files = <<>>
    /\ lod = <<>> /\ query = <<>> /\ result = "none" /\ io = <<>>

NextLod ==
    \/ Lod_open_magic
    \/ Lod_open_version
    \/ Lod_open_initial_header
    \/ Lod_open_file_header
    \/ Lod_open_return
    \/ Lod_get_raw

SpecLod == InitLod /\ [][NextLod]_vars

\* =================================================================
\* SpecAtlas: join_images_in_grid (src/lod/src/image.rs)
\* =================================================================
Background == <<0, 0, 0, 0>>
KeyPixel == <<0, 255, 255, 255>>
OtherPixel == <<9, 9, 9, 255>>
NearKeyPixel == <<0, 255, 7, 255>>

TileCells == (0..(image_width - 1)) \X (0..(image_height - 1))

\* the tiles a caller passes: all colour key, none, and a mix of the key
\* with a pixel that shares its first two channels
TileSample ==
    {[xy \in TileCells |-> KeyPixel],
     [xy \in TileCells |-> OtherPixel],
     [xy \in TileCells |-> IF (xy[1] + xy[2]) % 2 = 0 THEN KeyPixel ELSE NearKeyPixel]}

\* (num_images as f32 / grid_width as f32).ceil() as u32, exact while both
\* numbers are below 2^24
CeilRows_floor(n, g) == n \div g
CeilRows(n, g) == IF n % g = 0 THEN n \div g ELSE n \div g + 1

\* pixel.0[0..2] != [0, 255, 255]: a slice of two channels against an array
\* of three
CopiesPixel(pixel) == SubSeq(pixel, 1, 2) # <<0, 255, 255>>

\* ImageBuffer::put_pixel panics outside the buffer
InCanvas(x, y) == x < combined_width /\ y < combined_height

\* the two inner loops over one tile: every pixel that passes the test is
\* put at its place in the canvas
PutTile(canvas, t, xo, yo) ==
    [xy \in DOMAIN canvas |->
        IF /\ xo <= xy[1] /\ xy[1] < xo + image_width
           /\ yo <= xy[2] /\ xy[2] < yo + image_height
           /\ CopiesPixel(t[<<xy[1] - xo, xy[2] - yo>>])
        THEN t[<<xy[1] - xo, xy[2] - yo>>]
        ELSE canvas[xy]]

\* the head of the function: the empty check, the canvas size, the canvas.
\* With grid_width 0 the first i % grid_width panics (and so, with overflow
\* checks, may the height product before it): the call ends in a panic
join_images_in_grid ==
    /\ at_pc = "start"
    /\ IF num_images = 0 \/ grid_width = 0
       THEN /\ at_pc' = "panic"
            /\ UNCHANGED <<combined_width, combined_height, combined_image>>
       ELSE /\ combined_width' = image_width * grid_width
            /\ combined_height' = image_height * CeilRows(num_images, grid_width)
            /\ combined_image' =
                 [xy \in (0..(combined_width' - 1)) \X (0..(combined_height' - 1)) |-> Background]
            /\ at_pc' = "run"
    /\ UNCHANGED <<num_images, grid_width, image_width, image_height, images, origins>>
    /\ UNCHANGED <<imageVars, lodVars>>

\* one iteration of the loop over images
join_images_in_grid_tile ==
    /\ at_pc = "run" /\ Len(images) < num_images
    /\ \E t \in TileSample :
         LET i == Len(images)
             x_offset == (i % grid_width) * image_width
             y_offset == (i \div grid_width) * image_height
         IN  /\ images' = Append(images, t)
             /\ IF \E xy \in DOMAIN t :
                     CopiesPixel(t[xy]) /\ ~InCanvas(xy[1] + x_offset, xy[2] + y_offset)
                THEN at_pc' = "panic" /\ UNCHANGED <<combined_image, origins>>
                ELSE /\ combined_image' = PutTile(combined_image, t, x_offset, y_offset)
                     /\ origins' = Append(origins, <<x_offset, y_offset>>)
                     /\ UNCHANGED at_pc
    /\ UNCHANGED <<num_images, grid_width, image_width, image_height,
                   combined_width, combined_height>>
    /\ UNCHANGED <<imageVars, lodVars>>

\* DynamicImage::ImageRgba8(combined_image)
join_images_in_grid_return ==
    /\ at_pc = "run" /\ Len(images) = num_images
    /\ at_pc' = "done"
    /\ UNCHANGED <<num_images, grid_width, image_width, image_height, images,
                   combined_width, combined_height, combined_image, origins>>
    /\ UNCHANGED <<imageVars, lodVars>>

InitAtlas ==
    /\ ImageIdle /\ LodIdle
    /\ at_pc = "start"
    /\ num_images \in 0..MaxTiles /\ grid_width \in 0..MaxGrid
    /\ image_width \in 0..MaxTileW /\ image_height \in 0..MaxTileH
    /\ images = <<>>
    /\ combined_width = 0 /\ combined_height = 0 /\ combined_image = <<>>
    /\ origins = <<>>

NextAtlas ==
    \/ join_images_in_grid
    \/ join_images_in_grid_tile
    \/ join_images_in_grid_return

SpecAtlas == InitAtlas /\ [][NextAtlas]_vars

\* ===================================================== claims under Spec

\* C1: in process_sprite_data the cursor starts at 0; a row whose start or
\* end is negative writes no byte of the output and advances the cursor by
\* width-1; a row with start >= 0 and end >= 0 copies exactly end-start+1
\* bytes from data[offset ..] to img[pos+start ..], leaves every other byte
\* alone, and advances the cursor by width in total.
C1_RowReconstruction ==
    [][(a_pc = "run" /\ a_i' = a_i + 1) =>
         LET rw == table[a_i + 1]
             n == rw.end - rw.start + 1
             to == current + rw.start
         IN  /\ a_i = 0 => current = 0
             /\ DOMAIN img' = DOMAIN img
             /\ IF rw.start < 0 \/ rw.end < 0
                THEN img' = img /\ current' = current + (width - 1)
                ELSE /\ n >= 0
                     /\ \A k \in 0..(n - 1) :
                          /\ to + k \in DOMAIN img /\ rw.offset + k \in DOMAIN data
                          /\ img'[to + k] = data[rw.offset + k]
                     /\ \A p \in DOMAIN img : (p < to \/ p >= to + n) => img'[p] = img[p]
                     /\ current' = current + width]_vars

\* a decode of two rows, the first empty, the second a run of two bytes
C1_Witness ==
    /\ a_pc = "ok" /\ a_i = 2 /\ width = 2
    /\ table[1].start < 0
    /\ table[2].start = 0 /\ table[2].end = 1
    /\ current = 3
    /\ img[0] = 0 /\ img[1] = data[table[2].offset] /\ img[2] = data[table[2].offset + 1]

\* C2: sprite decoding never aborts: whatever the row table and the run
\* data, neither row decoder panics (a copy out of bounds is an error value).
C2_NeverAborts == a_pc # "panic" /\ b_pc # "panic"

\* C7: a bitmap record that decodes successfully has a pixel buffer of at
\* least width*height bytes, so materialising it never reads past its end.
C7_BufferCoversImage ==
    /\ bm_pc = "ok" => BufLen(image[1].data) >= image[1].width * image[1].height
    /\ kind = "bitmap" => m_pc # "panic"

WellFormedRow(rw) ==
    /\ 0 <= rw.start /\ rw.start <= rw.end /\ rw.end < width
    /\ rw.offset + (rw.end - rw.start + 1) <= BufLen(data)

WellFormedTable == \A r \in 1..Len(table) : WellFormedRow(table[r])

RunPixel(p, rows) ==
    LET r == p \div width
        c == p % width
    IN  IF r < rows /\ table[r + 1].start <= c /\ c <= table[r + 1].end
        THEN data[table[r + 1].offset + (c - table[r + 1].start)]
        ELSE 0

C10_DecodersAgree ==
    WellFormedTable =>
        /\ a_pc # "panic" /\ b_pc # "panic"
        /\ current = a_i * width /\ img_index = b_i * width
        /\ \A p \in DOMAIN img : img[p] = RunPixel(p, a_i)
        /\ \A p \in DOMAIN img2 : img2[p] = RunPixel(p, b_i)
        /\ (a_pc = "ok" /\ b_pc = "ok") => img = img2

\* both decoders finished a two-row sprite with a gap before and after a run
C10_Witness ==
    /\ a_pc = "ok" /\ b_pc = "ok" /\ WellFormedTable
    /\ Len(table) = 2 /\ width = 2
    /\ table[1].start = 1 /\ table[2].end = 0
    /\ img = img2 /\ img[0] = 0 /\ img[1] # 0 /\ img[2] # 0 /\ img[3] = 0

\* ================================================== claims under SpecLod

\* C3: after a successful open on a directory whose record 0 has count c
\* and offset base, files() returns exactly c+1 names in directory order,
\* entry 0 keeps the offset base unadjusted, and every entry i in 1..c has
\* offset raw offset + base.
C3_DirectoryOffsets ==
    lod # <<>> =>
        LET c == dir[1].count
            base == dir[1].offset
            names == Lod_files(lod[1])
        IN  /\ Len(names) = c + 1 /\ Len(dir) = c + 1
            /\ \A i \in 1..(c + 1) : names[i] = NameBytes(dir[i].name)
            /\ lod[1].files[1].offset = base
            /\ \A i \in 2..(c + 1) : lod[1].files[i].offset = dir[i].offset + base

\* an archive of record 0 and two entries, base 16
C3_Witness ==
    /\ lod # <<>> /\ Len(lod[1].files) = 3
    /\ dir[1].count = 2 /\ dir[1].offset = 16
    /\ dir[2].offset = 64 /\ lod[1].files[2].offset = 80
    /\ dir[3].offset = 16 /\ lod[1].files[3].offset = 32
    /\ Lod_files(lod[1]) = <<<<97>>, <<65>>, <<97>>>>

\* C4: open yields an archive only after the magic was validated, the tag
\* recognised and all count+1 records read; on every other input, whatever
\* the count field (negative included), it returns an error value: it never
\* aborts and never leaves a partly built archive.
C4_OpenAllOrNothing ==
    /\ lod_pc # "Panic"
    /\ lod # <<>> =>
         /\ lod_pc = "Ready" /\ magic = "LOD"
         /\ tag \in {"GameMMVI", "MMVI", "GameMMVII", "MMVII", "GameMMVIII", "MMVIII"}
         /\ Len(dir) = dir[1].count + 1
         /\ Len(lod[1].files) = dir[1].count + 1
    /\ lod_pc # "Ready" => lod = <<>>

\* C9: get_raw of a name that no entry has, compared exactly and with case,
\* returns NotFound and opens, seeks and reads nothing; the backing file is
\* opened only after an entry matched.
NoEntryNamed(name) == \A i \in 1..Len(lod[1].files) : lod[1].files[i].name # name

C9_NotFoundNoIo ==
    result # "none" =>
        /\ NoEntryNamed(query) => result = "NotFound" /\ io = <<>>
        /\ io # <<>> => ~NoEntryNamed(query)

\* "A" asked of an archive that holds "a" only
C9_Witness ==
    /\ result = "NotFound" /\ io = <<>> /\ query = <<65>>
    /\ Len(lod[1].files) = 2
    /\ \A i \in 1..2 : lod[1].files[i].name = <<97>>

\* ================================================ claims under SpecAtlas

\* C5: a tile pixel equal to the colour key (0,255,255) is skipped: the
\* canvas pixel at its place keeps the background it was initialised with.
IsColorKey(pixel) == pixel[1] = 0 /\ pixel[2] = 255 /\ pixel[3] = 255

C5_ColorKeySkipped ==
    \A i \in 1..Len(origins) :
        \A xy \in DOMAIN images[i] :
            IsColorKey(images[i][xy]) =>
                combined_image[<<xy[1] + origins[i][1], xy[2] + origins[i][2]>>] = Background

\* C6: for n >= 1 uniform tiles and grid_width g >= 1 the call does not
\* abort, the canvas is tile_width*g wide and tile_height*ceil(n/g) high,
\* tile i has its top-left corner at (tile_width*(i mod g), tile_height*(i
\* div g)), every tile lies inside the canvas, and no two tiles overlap.
LeastRows(n, g) == CHOOSE k \in 0..n : k * g >= n /\ (k = 0 \/ (k - 1) * g < n)

C6_GridLayout ==
    (num_images >= 1 /\ grid_width >= 1 /\ at_pc # "start") =>
        /\ at_pc # "panic"
        /\ combined_width = image_width * grid_width
        /\ combined_height = image_height * LeastRows(num_images, grid_width)
        /\ Len(origins) = Len(images)
        /\ \A i \in 1..Len(origins) :
             /\ origins[i] = <<image_width * ((i - 1) % grid_width),
                               image_height * ((i - 1) \div grid_width)>>
             /\ origins[i][1] + image_width <= combined_width
             /\ origins[i][2] + image_height <= combined_height
        /\ \A i, j \in 1..Len(origins) :
             (i < j /\ image_width > 0 /\ image_height > 0) =>
                \/ origins[i][1] + image_width <= origins[j][1]
                \/ origins[j][1] + image_width <= origins[i][1]
                \/ origins[i][2] + image_height <= origins[j][2]
                \/ origins[j][2] + image_height <= origins[i][2]

\* five tiles in a grid two wide: three rows, the last half filled
C6_Witness ==
    /\ at_pc = "done" /\ num_images = 5 /\ grid_width = 2
    /\ image_width = 2 /\ image_height = 2
    /\ combined_width = 4 /\ combined_height = 6
    /\ origins[5] = <<0, 4>>
    /\ combined_image[<<1, 5>>] # Background /\ combined_image[<<2, 4>>] = Background

====
